---- MODULE Spec2Model ----
(***************************************************************************)
(* A state-machine model of keras.layers.Embedding                         *)
(* (src/keras/src/layers/core/embedding.py): the variable lifecycle        *)
(* (build, enable_lora, quantize, save/load) and the forward computation   *)
(* over the four representations dense, dense+LoRA, int8, int8+LoRA.       *)
(*                                                                         *)
(* Floating-point tensors are modelled by exact rationals [n, d] in lowest *)
(* terms with d > 0; the value NonFinite (d = 0) stands for inf/nan and is *)
(* absorbing.  A matrix is a sequence of rows, a row a sequence of         *)
(* rationals.                                                              *)
(***************************************************************************)
EXTENDS Integers, Sequences, FiniteSets, TLC

\* ------------------------------------------------------------------ bounds
\* output_dim is MaxDim and input_dim is MaxDim - 1 or MaxDim
MaxDim == 2
\* LoRA ranks range over 0..MaxRank
MaxRank == 1
\* index tensors are flat sequences of at most MaxIdxLen indices
MaxIdxLen == 2
\* at most MaxLoads calls of load_own_variables in a run
MaxLoads == 1

\* the int8 value range used by the abs-max quantizer
Int8Max == 127

\* --------------------------------------------------------------- rationals
Abs(x) == IF x < 0 THEN -x ELSE x

RECURSIVE Gcd(_, _)
Gcd(a, b) == IF b = 0 THEN a ELSE Gcd(b, a % b)

NonFinite == [n |-> 1, d |-> 0]

Norm(n, d) ==
    IF d = 0 THEN NonFinite
    ELSE LET g == Gcd(Abs(n), Abs(d))
             s == IF d < 0 THEN -1 ELSE 1
         IN  [n |-> s * (n \div g), d |-> s * (d \div g)]

R(i) == [n |-> i, d |-> 1]

IsFinite(x) == x.d # 0

\* the operations cancel common factors before they multiply, so that the
\* intermediate integers stay as small as the result allows
Lcm(a, b) == (a \div Gcd(a, b)) * b

RAdd(x, y) == IF x.d = 0 \/ y.d = 0 THEN NonFinite
              ELSE LET m == Lcm(x.d, y.d)
                   IN  Norm(x.n * (m \div x.d) + y.n * (m \div y.d), m)

RNeg(x) == [n |-> -x.n, d |-> x.d]

RSub(x, y) == IF x.d = 0 \/ y.d = 0 THEN NonFinite ELSE RAdd(x, RNeg(y))

RMul(x, y) == IF x.d = 0 \/ y.d = 0 THEN NonFinite
              ELSE LET g1 == Gcd(Abs(x.n), y.d)
                       g2 == Gcd(Abs(y.n), x.d)
                   IN  Norm((x.n \div g1) * (y.n \div g2),
                            (x.d \div g2) * (y.d \div g1))

RInv(x) == IF x.d = 0 \/ x.n = 0 THEN NonFinite
           ELSE IF x.n < 0 THEN [n |-> -x.d, d |-> -x.n]
           ELSE [n |-> x.d, d |-> x.n]

RDiv(x, y) == IF x.d = 0 \/ y.d = 0 THEN NonFinite ELSE RMul(x, RInv(y))

RAbs(x) == [n |-> Abs(x.n), d |-> x.d]

\* x <= y on finite rationals; any comparison with NonFinite is false
RLe(x, y) ==
    /\ x.d # 0
    /\ y.d # 0
    /\ LET m == Lcm(x.d, y.d) IN x.n * (m \div x.d) <= y.n * (m \div y.d)

RMax(x, y) == IF RLe(x, y) THEN y ELSE x

\* round half to even, as an integer-valued rational
RRound(x) ==
    IF x.d = 0 THEN NonFinite
    ELSE LET f == x.n \div x.d
             r == x.n - f * x.d
         IN  IF 2 * r < x.d THEN R(f)
             ELSE IF 2 * r > x.d THEN R(f + 1)
             ELSE IF f % 2 = 0 THEN R(f) ELSE R(f + 1)

RClip(x, lo, hi) ==
    IF x.d = 0 THEN NonFinite
    ELSE IF RLe(x, R(lo)) THEN R(lo)
    ELSE IF RLe(R(hi), x) THEN R(hi)
    ELSE x

\* ---------------------------------------------------------------- tensors
\* ops.zeros(shape)
zeros(rows, cols) == [i \in 1..rows |-> [j \in 1..cols |-> R(0)]]

\* The values an initializer or an optimizer step can produce, by kind:
\* "zeros" and "ones" are the constant initializers; "ramp" and "mixed" are
\* two sample draws of a random initializer ("uniform", "he_uniform").
InitValue(kind, i, j) ==
    CASE kind = "zeros" -> R(0)
      [] kind = "ones"  -> R(1)
      [] kind = "ramp"  -> R(i * j)
      [] kind = "mixed" -> R((IF i % 2 = 1 THEN -1 ELSE 1) * (i + j - 1))

initializer(kind, rows, cols) ==
    [i \in 1..rows |-> [j \in 1..cols |-> InitValue(kind, i, j)]]

RandomDraws == {"ramp", "mixed"}
TableKinds == {"zeros", "ramp", "mixed"}
TrainedKinds == {"ones", "mixed"}

RECURSIVE SumTo(_, _)
SumTo(f, k) == IF k = 0 THEN R(0) ELSE RAdd(SumTo(f, k - 1), f[k])

\* ops.matmul of an (n x k) by a (k x m) matrix b
matmul(a, b, n, k, m) ==
    [i \in 1..n |-> [j \in 1..m |->
        SumTo([l \in 1..k |-> RMul(a[i][l], b[l][j])], k)]]

\* ops.add / ops.divide of two matrices of the same shape
add(a, b) == [i \in DOMAIN a |-> [j \in DOMAIN a[i] |-> RAdd(a[i][j], b[i][j])]]

\* ops.divide of a matrix by a vector broadcast over the rows
divide(a, s) == [i \in DOMAIN a |-> [j \in DOMAIN a[i] |-> RDiv(a[i][j], s[j])]]

\* ops.take(t, inputs, axis=0): indices are 0-based, one row per index
take(t, inputs) == [k \in DOMAIN inputs |-> t[inputs[k] + 1]]

\* ops.squeeze(scale, axis=0): the (1, D) scale as a vector of length D
squeeze(s) == s[1]

\* ------------------------------------------------------- abs-max quantizer
RECURSIVE ColAbsMax(_, _, _)
ColAbsMax(x, j, rows) ==
    IF rows = 0 THEN R(0)
    ELSE RMax(ColAbsMax(x, j, rows - 1), RAbs(x[rows][j]))

\* quantizers.abs_max_quantize(x, axis=0): per column j of the (rows x cols)
\* matrix x, scale[j] = 127 / max_i |x[i][j]| and
\* value[i][j] = clip(round(x[i][j] * scale[j]), -127, 127); the scale keeps
\* the reduced axis, shape (1, cols).  The stored scale is the factor that
\* quantization multiplies by: the layer de-scales by dividing by it
\* (embedding.py lines 344-348 and 409-413).  A column of zeros has no finite
\* scale here (the quantizer's own guard against it is outside this file).
abs_max_quantize(x, rows, cols) ==
    LET sc == [j \in 1..cols |-> RDiv(R(Int8Max), ColAbsMax(x, j, rows))]
    IN  [value |-> [i \in 1..rows |-> [j \in 1..cols |->
                      RClip(RRound(RMul(x[i][j], sc[j])), -Int8Max, Int8Max)]],
         scale |-> <<sc>>]

\* ------------------------------------------------------------ layer state
\* lora_rank=None (the constructor default)
None == -1

\* a backend variable: dtype, trainable flag and current value
Variable(dtype, trainable, value) ==
    [dtype |-> dtype, trainable |-> trainable, value |-> value]

\* an attribute that has not been set (or was deleted with `del`)
Absent == [dtype |-> "absent", trainable |-> FALSE, value |-> <<>>]

\* isinstance(policy, dtype_policies.QuantizedDTypePolicy)
IsQuantizedPolicy(policy) == policy # "float32"

\* dtype_policy.quantization_mode
quantization_mode(policy) ==
    CASE policy = "int8_from_float32"   -> "int8"
      [] policy = "float8_from_float32" -> "float8"
      [] OTHER                          -> "none"

\* the modes the framework recognises; only "int8" is implemented by this layer
QUANTIZATION_MODES == {"int8", "float8"}
Modes == {"int8", "float8", "int7"}

\* a result of an operation: the layer it leaves and the exception raised
Ok(l) == [layer |-> l, err |-> "none"]
Raise(l, e) == [layer |-> l, err |-> e]

\* Embedding.__init__ with weights=None
NewLayer(V, D, constraint, rank, policy, sub) ==
    [input_dim |-> V, output_dim |-> D,
     embeddings_constraint |-> constraint,
     lora_rank |-> rank, lora_enabled |-> FALSE,
     dtype_policy |-> policy, is_subclass |-> sub,
     built |-> FALSE, tracker_locked |-> FALSE, variables |-> <<>>,
     inputs_quantizer |-> FALSE,
     _embeddings |-> Absent, embeddings_scale |-> Absent,
     lora_embeddings_a |-> Absent, lora_embeddings_b |-> Absent]

\* Layer.add_weight: registers the variable with the tracker
add_weight(variables, name) == Append(variables, name)

\* Layer._untrack_variable
_untrack_variable(variables, name) ==
    SelectSeq(variables, LAMBDA v : v # name)

\* ----------------------------------------------------------------- LoRA
\* Embedding.embeddings (property): the effective table
embeddings(l) ==
    IF l.lora_enabled
    THEN add(l._embeddings.value,
             matmul(l.lora_embeddings_a.value, l.lora_embeddings_b.value,
                    l.input_dim, l.lora_rank, l.output_dim))
    ELSE l._embeddings.value

\* enable_lora as it would be without the "already enabled" check
enable_lora_unguarded(l, rank, a_init, b_init) ==
    IF l.embeddings_constraint THEN Raise(l, "ValueError: lora constraint")
    ELSE IF ~l.built THEN Raise(l, "ValueError: lora not built")
    ELSE Ok([l EXCEPT
        !.variables = add_weight(add_weight(@, "lora_embeddings_a"),
                                 "lora_embeddings_b"),
        !.lora_embeddings_a =
            Variable("float32", TRUE, initializer(a_init, l.input_dim, rank)),
        !.lora_embeddings_b =
            Variable("float32", TRUE, initializer(b_init, rank, l.output_dim)),
        !._embeddings = [@ EXCEPT !.trainable = FALSE],
        !.tracker_locked = TRUE,
        !.lora_enabled = TRUE,
        !.lora_rank = rank])

\* enable_lora as it would be if B were initialized like A
enable_lora_b_like_a(l, rank, a_init, b_init) ==
    IF l.embeddings_constraint THEN Raise(l, "ValueError: lora constraint")
    ELSE IF ~l.built THEN Raise(l, "ValueError: lora not built")
    ELSE IF l.lora_enabled THEN Raise(l, "ValueError: lora already enabled")
    ELSE Ok([l EXCEPT
        !.variables = add_weight(add_weight(@, "lora_embeddings_a"),
                                 "lora_embeddings_b"),
        !.lora_embeddings_a =
            Variable("float32", TRUE, initializer(a_init, l.input_dim, rank)),
        !.lora_embeddings_b =
            Variable("float32", TRUE, initializer(a_init, rank, l.output_dim)),
        !._embeddings = [@ EXCEPT !.trainable = FALSE],
        !.tracker_locked = TRUE,
        !.lora_enabled = TRUE,
        !.lora_rank = rank])

\* Embedding.enable_lora(rank, a_initializer, b_initializer); a_init is the
\* draw of the "he_uniform" default (or another initializer's kind)
enable_lora(l, rank, a_init, b_init) ==
    IF l.embeddings_constraint THEN Raise(l, "ValueError: lora constraint")
    ELSE IF ~l.built THEN Raise(l, "ValueError: lora not built")
    ELSE IF l.lora_enabled THEN Raise(l, "ValueError: lora already enabled")
    ELSE Ok([l EXCEPT
        !.variables = add_weight(add_weight(@, "lora_embeddings_a"),
                                 "lora_embeddings_b"),
        !.lora_embeddings_a =
            Variable("float32", TRUE, initializer(a_init, l.input_dim, rank)),
        !.lora_embeddings_b =
            Variable("float32", TRUE, initializer(b_init, rank, l.output_dim)),
        !._embeddings = [@ EXCEPT !.trainable = FALSE],
        !.tracker_locked = TRUE,
        !.lora_enabled = TRUE,
        !.lora_rank = rank])

\* ------------------------------------------------------------ build
\* Embedding._int8_build(embeddings_initializer, embeddings_scale_initializer)
\* with the initial values the two initializers return
_int8_build(l, table, scale) ==
    [l EXCEPT
        !.inputs_quantizer = TRUE,
        !.variables = add_weight(add_weight(@, "embeddings"), "embeddings_scale"),
        !._embeddings = Variable("int8", FALSE, table),
        !.embeddings_scale = Variable("float32", FALSE, scale)]

\* Embedding.quantized_build(input_shape, mode)
quantized_build(l, mode) ==
    IF mode = "int8"
    THEN Ok(_int8_build(l, initializer("zeros", l.input_dim, l.output_dim),
                        initializer("ones", 1, l.output_dim)[1]))
    ELSE Raise(l, "NotImplementedError: quantization mode")

\* build as it would be without the early return on a built layer
build_rebuilds(l, table_init, a_init) ==
    LET is_quantized == IsQuantizedPolicy(l.dtype_policy)
        mode == quantization_mode(l.dtype_policy)
        q == IF is_quantized THEN quantized_build(l, mode) ELSE Ok(l)
    IN  IF q.err # "none" THEN q
        ELSE
        LET l1 == IF ~is_quantized \/ mode # "int8"
                  THEN [q.layer EXCEPT
                          !.variables = add_weight(@, "embeddings"),
                          !._embeddings = Variable("float32", TRUE,
                              initializer(table_init, l.input_dim, l.output_dim))]
                  ELSE q.layer
            l2 == [l1 EXCEPT !.built = TRUE]
        IN  IF l2.lora_rank # None /\ l2.lora_rank # 0
            THEN enable_lora(l2, l2.lora_rank, a_init, "zeros")
            ELSE Ok(l2)

\* build as it would be if it allocated the dense table in every mode
build_allocating_both(l, table_init, a_init) ==
    IF l.built THEN Ok(l)
    ELSE
    LET is_quantized == IsQuantizedPolicy(l.dtype_policy)
        mode == quantization_mode(l.dtype_policy)
        q == IF is_quantized THEN quantized_build(l, mode) ELSE Ok(l)
    IN  IF q.err # "none" THEN q
        ELSE
        LET l1 == [q.layer EXCEPT
                     !.variables = add_weight(@, "embeddings"),
                     !._embeddings = Variable("float32", TRUE,
                         initializer(table_init, l.input_dim, l.output_dim))]
            l2 == [l1 EXCEPT !.built = TRUE]
        IN  IF l2.lora_rank # None /\ l2.lora_rank # 0
            THEN enable_lora(l2, l2.lora_rank, a_init, "zeros")
            ELSE Ok(l2)

\* Embedding.build; table_init is the kind (or draw) of embeddings_initializer
\* and a_init the draw of he_uniform used if LoRA is enabled by build
build(l, table_init, a_init) ==
    IF l.built THEN Ok(l)
    ELSE
    LET is_quantized == IsQuantizedPolicy(l.dtype_policy)
        mode == quantization_mode(l.dtype_policy)
        q == IF is_quantized THEN quantized_build(l, mode) ELSE Ok(l)
    IN  IF q.err # "none" THEN q
        ELSE
        LET l1 == IF ~is_quantized \/ mode # "int8"
                  THEN [q.layer EXCEPT
                          !.variables = add_weight(@, "embeddings"),
                          !._embeddings = Variable("float32", TRUE,
                              initializer(table_init, l.input_dim, l.output_dim))]
                  ELSE q.layer
            l2 == [l1 EXCEPT !.built = TRUE]
        IN  IF l2.lora_rank # None /\ l2.lora_rank # 0
            THEN enable_lora(l2, l2.lora_rank, a_init, "zeros")
            ELSE Ok(l2)

\* Layer's wrapper around build(): the tracker is locked once build returns
build_wrapper(l, table_init, a_init) ==
    LET r == build(l, table_init, a_init)
    IN  IF r.err = "none"
        THEN Ok([r.layer EXCEPT !.tracker_locked = TRUE])
        ELSE r

\* ------------------------------------------------------------ quantize
\* Layer._check_quantize_args(mode, compute_dtype): the layer must be built
\* and the mode one the framework recognises
_check_quantize_args(l, mode) ==
    IF ~l.built THEN "ValueError: quantize not built"
    ELSE IF mode \notin QUANTIZATION_MODES THEN "ValueError: invalid mode"
    ELSE "none"

\* dtype_policies.get(f"{mode}_from_{self.dtype_policy.name}")
quantized_policy(mode, policy) ==
    IF mode = "int8" THEN "int8_from_float32" ELSE "float8_from_float32"

\* quantize as it would be without the "only once" check on an int8 table
quantize_again(l, mode) ==
    IF l.is_subclass THEN Raise(l, "NotImplementedError: subclass")
    ELSE
    LET c == _check_quantize_args(l, mode)
    IN  IF c # "none" THEN Raise(l, c)
        ELSE
        LET l1 == IF ~IsQuantizedPolicy(l.dtype_policy)
                  THEN [l EXCEPT !.dtype_policy =
                                   quantized_policy(mode, l.dtype_policy)]
                  ELSE l
            l2 == [l1 EXCEPT !.tracker_locked = FALSE]
        IN  IF mode = "int8"
            THEN LET q == abs_max_quantize(l2._embeddings.value,
                                           l2.input_dim, l2.output_dim)
                     l3 == [l2 EXCEPT
                              !.inputs_quantizer = TRUE,
                              !.variables = _untrack_variable(@, "embeddings"),
                              !._embeddings = Absent]
                     l4 == _int8_build(l3, q.value, squeeze(q.scale))
                 IN  Ok([l4 EXCEPT !.tracker_locked = TRUE])
            ELSE Raise(l2, "NotImplementedError: quantization mode")

\* quantize as it would be if the subclass guard came after the new dtype
\* policy is set
quantize_guarding_late(l, mode) ==
    LET c == _check_quantize_args(l, mode)
    IN  IF c # "none" THEN Raise(l, c)
        ELSE
        LET l1 == IF ~IsQuantizedPolicy(l.dtype_policy)
                  THEN [l EXCEPT !.dtype_policy =
                                   quantized_policy(mode, l.dtype_policy)]
                  ELSE l
            l2 == [l1 EXCEPT !.tracker_locked = FALSE]
        IN  IF l.is_subclass THEN Raise(l1, "NotImplementedError: subclass")
            ELSE IF mode = "int8"
            THEN IF l2._embeddings.dtype = "int8"
                 THEN Raise(l2, "ValueError: quantize once")
                 ELSE
                 LET q == abs_max_quantize(l2._embeddings.value,
                                           l2.input_dim, l2.output_dim)
                     l3 == [l2 EXCEPT
                              !.inputs_quantizer = TRUE,
                              !.variables = _untrack_variable(@, "embeddings"),
                              !._embeddings = Absent]
                     l4 == _int8_build(l3, q.value, squeeze(q.scale))
                 IN  Ok([l4 EXCEPT !.tracker_locked = TRUE])
            ELSE Raise(l2, "NotImplementedError: quantization mode")

\* quantize as it would be if it quantized the effective table (base + A.B)
quantize_effective_table(l, mode) ==
    IF l.is_subclass THEN Raise(l, "NotImplementedError: subclass")
    ELSE
    LET c == _check_quantize_args(l, mode)
    IN  IF c # "none" THEN Raise(l, c)
        ELSE
        LET l1 == IF ~IsQuantizedPolicy(l.dtype_policy)
                  THEN [l EXCEPT !.dtype_policy =
                                   quantized_policy(mode, l.dtype_policy)]
                  ELSE l
            l2 == [l1 EXCEPT !.tracker_locked = FALSE]
        IN  IF mode = "int8"
            THEN IF l2._embeddings.dtype = "int8"
                 THEN Raise(l2, "ValueError: quantize once")
                 ELSE
                 LET q == abs_max_quantize(embeddings(l2),
                                           l2.input_dim, l2.output_dim)
                     l3 == [l2 EXCEPT
                              !.inputs_quantizer = TRUE,
                              !.variables = _untrack_variable(@, "embeddings"),
                              !._embeddings = Absent]
                     l4 == _int8_build(l3, q.value, squeeze(q.scale))
                 IN  Ok([l4 EXCEPT !.tracker_locked = TRUE])
            ELSE Raise(l2, "NotImplementedError: quantization mode")

\* Embedding.quantize(mode)
quantize(l, mode) ==
    IF l.is_subclass THEN Raise(l, "NotImplementedError: subclass")
    ELSE
    LET c == _check_quantize_args(l, mode)
    IN  IF c # "none" THEN Raise(l, c)
        ELSE
        LET l1 == IF ~IsQuantizedPolicy(l.dtype_policy)
                  THEN [l EXCEPT !.dtype_policy =
                                   quantized_policy(mode, l.dtype_policy)]
                  ELSE l
            l2 == [l1 EXCEPT !.tracker_locked = FALSE]
        IN  IF mode = "int8"
            THEN IF l2._embeddings.dtype = "int8"
                 THEN Raise(l2, "ValueError: quantize once")
                 ELSE
                 LET q == abs_max_quantize(l2._embeddings.value,
                                           l2.input_dim, l2.output_dim)
                     l3 == [l2 EXCEPT
                              !.inputs_quantizer = TRUE,
                              !.variables = _untrack_variable(@, "embeddings"),
                              !._embeddings = Absent]
                     l4 == _int8_build(l3, q.value, squeeze(q.scale))
                 IN  Ok([l4 EXCEPT !.tracker_locked = TRUE])
            ELSE Raise(l2, "NotImplementedError: quantization mode")

\* ------------------------------------------------------------- forward
\* a result of a forward pass: the output tensor, or the exception raised
Returned(v) == [value |-> v, err |-> "none"]
Raised(e) == [value |-> <<>>, err |-> e]

\* Embedding.call(inputs): the gather over the effective table
call(l, inputs) == Returned(take(embeddings(l), inputs))

\* _int8_call as it would be without the LoRA term
_int8_call_without_lora(l, inputs) ==
    divide(take(l._embeddings.value, inputs), l.embeddings_scale.value)

\* _int8_call as it would be if it de-scaled by multiplying by the scale
_int8_call_multiplying(l, inputs) ==
    LET gathered == take(l._embeddings.value, inputs)
        descaled == [k \in DOMAIN gathered |-> [j \in DOMAIN gathered[k] |->
                        RMul(gathered[k][j], l.embeddings_scale.value[j])]]
    IN  IF l.lora_enabled
        THEN add(descaled,
                 matmul(take(l.lora_embeddings_a.value, inputs),
                        l.lora_embeddings_b.value,
                        Len(inputs), l.lora_rank, l.output_dim))
        ELSE descaled

\* Embedding._int8_call(inputs)
_int8_call(l, inputs) ==
    LET gathered == take(l._embeddings.value, inputs)
        descaled == divide(gathered, l.embeddings_scale.value)
    IN  IF l.lora_enabled
        THEN LET lora_outputs ==
                   matmul(take(l.lora_embeddings_a.value, inputs),
                          l.lora_embeddings_b.value,
                          Len(inputs), l.lora_rank, l.output_dim)
             IN  add(descaled, lora_outputs)
        ELSE descaled

\* Embedding.quantized_call(inputs)
quantized_call(l, inputs) ==
    IF quantization_mode(l.dtype_policy) = "int8"
    THEN Returned(_int8_call(l, inputs))
    ELSE Raised("NotImplementedError: quantization mode")

\* Layer.__call__ on a built layer: a quantized layer is served by
\* quantized_call, any other by call
forward(l, inputs) ==
    IF IsQuantizedPolicy(l.dtype_policy)
    THEN quantized_call(l, inputs)
    ELSE call(l, inputs)

\* ------------------------------------------------------------ persistence
\* _get_embeddings_with_merged_lora as it would be if a quantized layer
\* exported its stored table and scale without merging the LoRA factors
merged_without_lora(l) ==
    IF IsQuantizedPolicy(l.dtype_policy)
    THEN IF l.embeddings_scale = Absent
         THEN [value |-> <<>>, scale |-> <<>>, err |-> "AttributeError"]
         ELSE [value |-> l._embeddings.value,
               scale |-> l.embeddings_scale.value, err |-> "none"]
    ELSE [value |-> embeddings(l), scale |-> <<>>, err |-> "none"]

\* Embedding._get_embeddings_with_merged_lora; reading embeddings_scale on a
\* layer that never allocated it raises AttributeError
_get_embeddings_with_merged_lora(l) ==
    IF IsQuantizedPolicy(l.dtype_policy)
    THEN IF l.embeddings_scale = Absent
         THEN [value |-> <<>>, scale |-> <<>>, err |-> "AttributeError"]
         ELSE IF l.lora_enabled
         THEN LET dequantized == divide(l._embeddings.value,
                                        l.embeddings_scale.value)
                  merged == add(dequantized,
                                matmul(l.lora_embeddings_a.value,
                                       l.lora_embeddings_b.value,
                                       l.input_dim, l.lora_rank, l.output_dim))
                  q == abs_max_quantize(merged, l.input_dim, l.output_dim)
              IN  [value |-> q.value, scale |-> squeeze(q.scale), err |-> "none"]
         ELSE [value |-> l._embeddings.value,
               scale |-> l.embeddings_scale.value, err |-> "none"]
    ELSE [value |-> embeddings(l), scale |-> <<>>, err |-> "none"]

\* a store is a function from a set of keys to tensors
EmptyStore == <<>>
Put(store, key, value) ==
    [k \in DOMAIN store \cup {key} |-> IF k = key THEN value ELSE store[k]]

\* save_own_variables as it would be if it merged the LoRA factors into the
\* live dense table while exporting
save_merging_in_place(l, store) ==
    IF ~l.built THEN [layer |-> l, store |-> store, err |-> "none"]
    ELSE
    LET m == _get_embeddings_with_merged_lora(l)
    IN  IF m.err # "none" THEN [layer |-> l, store |-> store, err |-> m.err]
        ELSE
        LET s0 == Put(store, "0", m.value)
            kept == [l EXCEPT !._embeddings.value = m.value]
        IN  IF IsQuantizedPolicy(l.dtype_policy)
            THEN IF quantization_mode(l.dtype_policy) = "int8"
                 THEN [layer |-> kept, store |-> Put(s0, "1", m.scale),
                       err |-> "none"]
                 ELSE [layer |-> l, store |-> s0,
                       err |-> "NotImplementedError: quantization mode"]
            ELSE [layer |-> kept, store |-> s0, err |-> "none"]

\* save_own_variables as it would be if a dense layer exported its base
\* table instead of the effective table
save_base_table(l, store) ==
    IF ~l.built THEN [layer |-> l, store |-> store, err |-> "none"]
    ELSE
    LET m == _get_embeddings_with_merged_lora(l)
    IN  IF m.err # "none" THEN [layer |-> l, store |-> store, err |-> m.err]
        ELSE
        IF IsQuantizedPolicy(l.dtype_policy)
        THEN IF quantization_mode(l.dtype_policy) = "int8"
             THEN [layer |-> l,
                   store |-> Put(Put(store, "0", m.value), "1", m.scale),
                   err |-> "none"]
             ELSE [layer |-> l, store |-> Put(store, "0", m.value),
                   err |-> "NotImplementedError: quantization mode"]
        ELSE [layer |-> l, store |-> Put(store, "0", l._embeddings.value),
              err |-> "none"]

\* Embedding.save_own_variables(store): the layer and the store it leaves
save_own_variables(l, store) ==
    IF ~l.built THEN [layer |-> l, store |-> store, err |-> "none"]
    ELSE
    LET m == _get_embeddings_with_merged_lora(l)
    IN  IF m.err # "none" THEN [layer |-> l, store |-> store, err |-> m.err]
        ELSE
        LET s0 == Put(store, "0", m.value)
        IN  IF IsQuantizedPolicy(l.dtype_policy)
            THEN IF quantization_mode(l.dtype_policy) = "int8"
                 THEN [layer |-> l, store |-> Put(s0, "1", m.scale),
                       err |-> "none"]
                 ELSE [layer |-> l, store |-> s0,
                       err |-> "NotImplementedError: quantization mode"]
            ELSE [layer |-> l, store |-> s0, err |-> "none"]

\* _check_load_own_variables as it would be without the "never built" variant
\* of the error
_check_load_count_only(l, store) ==
    IF Cardinality(DOMAIN store) # Len(l.variables)
    THEN "ValueError: variable count mismatch"
    ELSE "none"

\* Embedding._check_load_own_variables(store)
_check_load_own_variables(l, store) ==
    IF Cardinality(DOMAIN store) # Len(l.variables)
    THEN IF Len(l.variables) = 0 /\ ~l.built
         THEN "ValueError: never built"
         ELSE "ValueError: variable count mismatch"
    ELSE "none"

\* load_own_variables as it would be if it left the LoRA factors as they are
load_keeping_lora(l, store) ==
    LET c == IF ~l.lora_enabled THEN _check_load_own_variables(l, store)
             ELSE "none"
    IN  IF c # "none" THEN Raise(l, c)
        ELSE IF ~l.built THEN Ok(l)
        ELSE IF "0" \notin DOMAIN store THEN Raise(l, "KeyError")
        ELSE
        LET l1 == [l EXCEPT !._embeddings.value = store["0"]]
        IN  IF IsQuantizedPolicy(l1.dtype_policy)
            THEN IF quantization_mode(l1.dtype_policy) = "int8"
                 THEN IF "1" \notin DOMAIN store THEN Raise(l1, "KeyError")
                      ELSE Ok([l1 EXCEPT !.embeddings_scale.value = store["1"]])
                 ELSE Raise(l1, "NotImplementedError: quantization mode")
            ELSE Ok(l1)

\* Embedding.load_own_variables(store)
load_own_variables(l, store) ==
    LET c == IF ~l.lora_enabled THEN _check_load_own_variables(l, store)
             ELSE "none"
    IN  IF c # "none" THEN Raise(l, c)
        ELSE IF ~l.built THEN Ok(l)
        ELSE IF "0" \notin DOMAIN store THEN Raise(l, "KeyError")
        ELSE
        LET l1 == [l EXCEPT !._embeddings.value = store["0"]]
            zeroed(x) ==
                IF x.lora_enabled
                THEN [x EXCEPT
                        !.lora_embeddings_a.value =
                            zeros(x.input_dim, x.lora_rank),
                        !.lora_embeddings_b.value =
                            zeros(x.lora_rank, x.output_dim)]
                ELSE x
        IN  IF IsQuantizedPolicy(l1.dtype_policy)
            THEN IF quantization_mode(l1.dtype_policy) = "int8"
                 THEN IF "1" \notin DOMAIN store THEN Raise(l1, "KeyError")
                      ELSE Ok(zeroed([l1 EXCEPT
                                !.embeddings_scale.value = store["1"]]))
                 ELSE Raise(l1, "NotImplementedError: quantization mode")
            ELSE Ok(zeroed(l1))

\* an optimizer step on the base table while it is trainable: an assign of
\* new values
assign_embeddings(l, table) ==
    [l EXCEPT !._embeddings.value =
                  initializer(table, l.input_dim, l.output_dim)]

\* an optimizer step on the LoRA factors: an assign of new values to each
assign_lora(l, a, b) ==
    [l EXCEPT
        !.lora_embeddings_a.value = initializer(a, l.input_dim, l.lora_rank),
        !.lora_embeddings_b.value = initializer(b, l.lora_rank, l.output_dim)]

\* --------------------------------------------------------- state machine
VARIABLES
    layer,   \* the Embedding instance
    pre,     \* the instance the last operation was called on (Forgotten
             \* after an optimizer step)
    op,      \* the last operation and its arguments
    err,     \* the exception the last operation raised, or "none"
    store,   \* the store handed to the last save or load, as that call left it
    out,     \* the tensor returned by the last forward pass
    loads    \* the number of load_own_variables calls so far

vars == <<layer, pre, op, err, store, out, loads>>

\* index tensors: flat sequences of indices in [0, V)
IndexTensors(V) ==
    UNION {[1..n -> 0..(V - 1)] : n \in 0..MaxIdxLen}

Policies == {"float32", "int8_from_float32", "float8_from_float32"}

\* the store a fresh save of layer l writes
Saved(l) == save_own_variables(l, EmptyStore).store

\* the stores a caller hands to load_own_variables: one just saved from this
\* layer, an empty one, or one written elsewhere with one or with two keys
LoadableStores(l) ==
    {Saved(l), EmptyStore,
     Put(EmptyStore, "0", initializer("ramp", l.input_dim, l.output_dim)),
     Put(Put(EmptyStore, "0", initializer("ramp", l.input_dim, l.output_dim)),
         "1", initializer("ones", 1, l.output_dim)[1])}

\* the flags of a layer whose values are no longer kept
Forgotten(l) ==
    [l EXCEPT !._embeddings.value = <<>>, !.embeddings_scale.value = <<>>,
              !.lora_embeddings_a.value = <<>>, !.lora_embeddings_b.value = <<>>]

Init ==
    /\ \E V \in {MaxDim - 1, MaxDim}, D \in {MaxDim}, constraint \in BOOLEAN,
          rank \in {None, MaxRank}, policy \in Policies, sub \in BOOLEAN :
          layer = NewLayer(V, D, constraint, rank, policy, sub)
    /\ pre = layer
    /\ op = [name |-> "__init__"]
    /\ err = "none"
    /\ store = EmptyStore
    /\ out = <<>>
    /\ loads = 0

\* an operation described by what, with result r (the layer it leaves and the
\* exception it raised), store s and return value v
Step(what, r, s, v) ==
    /\ op' = what
    /\ layer' = r.layer
    /\ err' = r.err
    /\ store' = s
    /\ out' = v

Build ==
    /\ \E table_init \in TableKinds,
          a_init \in IF layer.lora_rank = None THEN {"ramp"} ELSE RandomDraws :
          Step([name |-> "build"],
               build_wrapper(layer, table_init, a_init), EmptyStore, <<>>)
    /\ pre' = layer
    /\ UNCHANGED loads

EnableLora ==
    /\ \E rank \in 0..MaxRank, a_init \in RandomDraws,
          b_init \in {"zeros", "ones"} :
          Step([name |-> "enable_lora", rank |-> rank,
                b_initializer |-> b_init],
               enable_lora(layer, rank, a_init, b_init), EmptyStore, <<>>)
    /\ pre' = layer
    /\ UNCHANGED loads

Quantize ==
    /\ \E mode \in Modes :
          Step([name |-> "quantize", mode |-> mode],
               quantize(layer, mode), EmptyStore, <<>>)
    /\ pre' = layer
    /\ UNCHANGED loads

Save ==
    /\ LET r == save_own_variables(layer, EmptyStore)
       IN  Step([name |-> "save_own_variables"], r, r.store, <<>>)
    /\ pre' = layer
    /\ UNCHANGED loads

Load ==
    /\ loads < MaxLoads
    /\ \E s \in LoadableStores(layer) :
          LET r == load_own_variables(layer, s)
          IN  /\ Step([name |-> "load_own_variables"], r, s, <<>>)
              /\ pre' = layer
    /\ loads' = loads + 1

Call ==
    /\ layer.built
    /\ \E inputs \in IndexTensors(layer.input_dim) :
          LET r == forward(layer, inputs)
          IN  Step([name |-> "call", inputs |-> inputs],
                   [layer |-> layer, err |-> r.err], EmptyStore, r.value)
    /\ pre' = layer
    /\ UNCHANGED loads

TrainEmbeddings ==
    /\ layer.built
    /\ layer._embeddings.trainable
    /\ \E table \in TableKinds :
          Step([name |-> "assign_embeddings"],
               Ok(assign_embeddings(layer, table)), EmptyStore, <<>>)
    /\ pre' = Forgotten(layer)
    /\ UNCHANGED loads

TrainLora ==
    /\ layer.lora_enabled
    /\ \E a \in TrainedKinds, b \in TrainedKinds :
          Step([name |-> "assign_lora"],
               Ok(assign_lora(layer, a, b)), EmptyStore, <<>>)
    /\ pre' = Forgotten(layer)
    /\ UNCHANGED loads

Next ==
    \/ Build \/ EnableLora \/ Quantize \/ Save \/ Load \/ Call
    \/ TrainEmbeddings \/ TrainLora

Spec == Init /\ [][Next]_vars

\* ============================================================== properties
\* the four representations the layer is specified for
IsDense(l) ==
    l.built /\ l.dtype_policy = "float32" /\ l._embeddings.dtype = "float32"

IsInt8(l) ==
    l.built /\ l.dtype_policy = "int8_from_float32" /\ l._embeddings.dtype = "int8"

\* row i (1-based), column j of A.B, summed term by term
LoraDelta(l, i, j) ==
    SumTo([k \in 1..l.lora_rank |->
             RMul(l.lora_embeddings_a.value[i][k],
                  l.lora_embeddings_b.value[k][j])], l.lora_rank)

\* C1: build() on a layer that is already built raises nothing and leaves
\* the registered variables, the table, the LoRA state and the quantization
\* state as they were; building twice reaches the state of building once.
C1_BuildIdempotent ==
    /\ (op.name = "build" /\ pre.built) =>
          /\ err = "none"
          /\ [layer EXCEPT !.tracker_locked = pre.tracker_locked] = pre
    /\ \A t \in TableKinds, a \in RandomDraws :
          LET once == build(layer, t, a)
          IN  once.layer.built => build(once.layer, t, a) = Ok(once.layer)

C1_Witness ==
    /\ op.name = "build" /\ pre.built /\ err = "none"
    /\ pre.lora_enabled /\ pre._embeddings.dtype = "int8"

\* C2 as stated: every quantize("int8") on a built layer whose table is
\* already int8 fails with the "can only be done once" error.
C2_Original ==
    (op.name = "quantize" /\ op.mode = "int8"
        /\ pre.built /\ pre._embeddings.dtype = "int8")
    => err = "ValueError: quantize once"

\* C2 (amended): a quantized layer never returns to the unquantized mode and
\* an int8 table stays int8; quantize("int8") on a built layer whose table
\* is already int8 fails, with the "can only be done once" error on an
\* instance of the exact type and the "not implemented" error on a subclass.
C2_QuantizeOnce ==
    /\ (op.name = "quantize" /\ op.mode = "int8"
          /\ pre.built /\ pre._embeddings.dtype = "int8")
       => /\ err = IF pre.is_subclass THEN "NotImplementedError: subclass"
                   ELSE "ValueError: quantize once"
          /\ layer._embeddings = pre._embeddings
          /\ layer.embeddings_scale = pre.embeddings_scale
    /\ IsQuantizedPolicy(pre.dtype_policy) => layer.dtype_policy = pre.dtype_policy
    /\ pre._embeddings.dtype = "int8" => layer._embeddings.dtype = "int8"

C2_Witness ==
    /\ op.name = "quantize" /\ op.mode = "int8" /\ ~pre.is_subclass
    /\ pre.built /\ pre._embeddings.dtype = "int8"
    /\ err = "ValueError: quantize once"

\* C3: enable_lora fails exactly when a constraint is attached, the layer
\* is not built, or LoRA is already enabled, each with its own error, and a
\* failing call leaves the layer as it was.
C3_EnableLoraFails ==
    op.name = "enable_lora" =>
        /\ err = IF pre.embeddings_constraint
                 THEN "ValueError: lora constraint"
                 ELSE IF ~pre.built THEN "ValueError: lora not built"
                 ELSE IF pre.lora_enabled
                 THEN "ValueError: lora already enabled"
                 ELSE "none"
        /\ err # "none" => layer = pre

C3_Witness ==
    /\ op.name = "enable_lora" /\ err = "ValueError: lora already enabled"
    /\ pre.lora_enabled /\ layer = pre

\* C4 as stated: whenever build() raises, the layer is still not built and
\* has no table registered.
C4_BuildAtomic ==
    (op.name = "build" /\ ~pre.built /\ err # "none") =>
        /\ ~layer.built
        /\ layer._embeddings = Absent
        /\ layer.variables = <<>>

\* C5 as stated, for the duplicate call it names: when quantize raises the
\* "can only be done once" error, the layer (dtype policy, table, scale,
\* registered variables, LoRA state, tracker lock) is as before the call.
C5_QuantizeAtomic ==
    (op.name = "quantize" /\ err = "ValueError: quantize once") => layer = pre

\* C6: right after a successful enable_lora with the default (zeros)
\* initializer of B, the effective table equals the base table, the base
\* table is the one before the call, and every forward pass returns what it
\* returned before the call.
C6_ZeroDeltaAtEnable ==
    (op.name = "enable_lora" /\ err = "none" /\ op.b_initializer = "zeros") =>
        /\ embeddings(layer) = layer._embeddings.value
        /\ layer._embeddings.value = pre._embeddings.value
        /\ layer.embeddings_scale = pre.embeddings_scale
        /\ \A inputs \in IndexTensors(layer.input_dim) :
              forward(layer, inputs) = forward(pre, inputs)

C6_Witness ==
    /\ op.name = "enable_lora" /\ err = "none" /\ op.b_initializer = "zeros"
    /\ op.rank > 0 /\ IsInt8(layer)
    /\ layer.lora_embeddings_a.value # zeros(layer.input_dim, op.rank)

\* the entry the forward pass is specified to return for index i (0-based)
\* and column j: baseTable[i][j], divided by scale[j] in int8 mode, plus
\* row i of A.B when LoRA is enabled
ExpectedEntry(l, i, j) ==
    LET base == IF IsInt8(l)
                THEN RDiv(l._embeddings.value[i + 1][j],
                          l.embeddings_scale.value[j])
                ELSE l._embeddings.value[i + 1][j]
    IN  IF l.lora_enabled THEN RAdd(base, LoraDelta(l, i + 1, j)) ELSE base

\* C7: in each of the four representations the forward pass of any index
\* tensor raises nothing, has shape inputs.shape + (D,), and its row for
\* index i is baseTable[i] (divided by scale in int8 mode) plus row i of A.B
\* when LoRA is enabled; an int8 layer is served by quantized_call, a dense
\* one by the gather over the effective table, and gathering rows of A and
\* multiplying by B gives the gathered rows of A.B.
C7_Forward ==
    (IsDense(layer) \/ IsInt8(layer)) =>
        \A inputs \in IndexTensors(layer.input_dim) :
            LET r == forward(layer, inputs)
            IN  /\ r.err = "none"
                /\ DOMAIN r.value = 1..Len(inputs)
                /\ \A k \in 1..Len(inputs) :
                      /\ DOMAIN r.value[k] = 1..layer.output_dim
                      /\ \A j \in 1..layer.output_dim :
                            r.value[k][j] = ExpectedEntry(layer, inputs[k], j)
                /\ IsInt8(layer) => r = quantized_call(layer, inputs)
                /\ IsDense(layer) => r.value = take(embeddings(layer), inputs)
                /\ layer.lora_enabled =>
                      matmul(take(layer.lora_embeddings_a.value, inputs),
                             layer.lora_embeddings_b.value,
                             Len(inputs), layer.lora_rank, layer.output_dim)
                      = take(matmul(layer.lora_embeddings_a.value,
                                    layer.lora_embeddings_b.value,
                                    layer.input_dim, layer.lora_rank,
                                    layer.output_dim), inputs)
                /\ (op.name = "call" /\ op.inputs = inputs) => out = r.value

C7_Witness ==
    /\ op.name = "call" /\ err = "none" /\ Len(op.inputs) = MaxIdxLen
    /\ IsInt8(layer) /\ layer.lora_enabled /\ layer.lora_rank > 0
    /\ \E j \in 1..layer.output_dim :
          /\ LoraDelta(layer, op.inputs[1] + 1, j) # R(0)
          /\ out[1][j] # RDiv(layer._embeddings.value[op.inputs[1] + 1][j],
                              layer.embeddings_scale.value[j])
          /\ IsFinite(out[1][j])

\* a dense, built layer without LoRA has just been quantized to int8
JustQuantized ==
    /\ op.name = "quantize" /\ op.mode = "int8" /\ err = "none"
    /\ IsDense(pre) /\ ~pre.lora_enabled

\* |x - y| <= bound
Within(x, y, bound) == RLe(RAbs(RSub(x, y)), bound)

Dequantized(l) ==
    [i \in 1..l.input_dim |-> [j \in 1..l.output_dim |->
        RAdd(RDiv(l._embeddings.value[i][j], l.embeddings_scale.value[j]),
             LoraDelta(l, i, j))]]

\* C9: the exported value is, for int8 with LoRA, the abs-max quantization
\* of baseTable / scale + A.B with its new scale; for int8 without LoRA, the
\* stored table and scale; for a dense layer, the effective table and no
\* scale; save_own_variables writes that value under key "0".
C9_MergedForSave ==
    (IsDense(layer) \/ IsInt8(layer)) =>
        LET m == _get_embeddings_with_merged_lora(layer)
            q == abs_max_quantize(Dequantized(layer), layer.input_dim,
                                  layer.output_dim)
        IN  /\ m.err = "none"
            /\ (IsInt8(layer) /\ layer.lora_enabled) =>
                  m.value = q.value /\ m.scale = q.scale[1]
            /\ (IsInt8(layer) /\ ~layer.lora_enabled) =>
                  /\ m.value = layer._embeddings.value
                  /\ m.scale = layer.embeddings_scale.value
            /\ IsDense(layer) =>
                  /\ m.scale = <<>>
                  /\ m.value = [i \in 1..layer.input_dim |->
                                  [j \in 1..layer.output_dim |->
                                      ExpectedEntry(layer, i - 1, j)]]
            /\ op.name = "save_own_variables" =>
                  err = "none" /\ store["0"] = m.value

C9_Witness ==
    /\ op.name = "save_own_variables" /\ err = "none"
    /\ IsInt8(layer) /\ layer.lora_enabled /\ layer.lora_rank > 0
    /\ store["0"] # layer._embeddings.value
    /\ store["1"] # layer.embeddings_scale.value
    /\ \A j \in 1..layer.output_dim : IsFinite(store["1"][j])

\* C10: save_own_variables leaves the live layer as it was: table, scale,
\* A, B, lora_enabled, rank, quantization mode and built flag.
C10_SaveKeepsLayer ==
    /\ op.name = "save_own_variables" => layer = pre
    /\ save_own_variables(layer, EmptyStore).layer = layer

C10_Witness ==
    /\ op.name = "save_own_variables" /\ err = "none"
    /\ layer.lora_enabled /\ layer.lora_rank > 0
    /\ store["0"] # layer._embeddings.value
    /\ layer = pre

\* C11 as stated: after save_own_variables on a built layer the store holds
\* key "0" with the (possibly LoRA-merged) table value in every case, key "1"
\* with the scale vector of length D if and only if the layer is quantized,
\* and no other key; saving a layer that is not built writes nothing.
C11_StoreKeys ==
    op.name = "save_own_variables" =>
        IF pre.built
        THEN /\ "0" \in DOMAIN store
             /\ store["0"] = _get_embeddings_with_merged_lora(pre).value
             /\ ("1" \in DOMAIN store) <=> IsQuantizedPolicy(pre.dtype_policy)
             /\ "1" \in DOMAIN store =>
                   DOMAIN store["1"] = 1..pre.output_dim
             /\ DOMAIN store \subseteq {"0", "1"}
        ELSE store = EmptyStore /\ err = "none"

\* C12: load_own_variables on a layer without LoRA fails, assigning nothing,
\* whenever the number of stored keys differs from the number of registered
\* variables: with the "never built" error exactly when the layer is not
\* built and has no variables, with the "expected N but received M" error
\* otherwise.  When the counts match on a built layer, key "0" is assigned to
\* the base table and, in int8 mode, key "1" to the scale; on a layer that is
\* not built a matching (empty) store is accepted and nothing is assigned.
C12_LoadCountCheck ==
    (op.name = "load_own_variables" /\ ~pre.lora_enabled) =>
        LET keys == Cardinality(DOMAIN store)
            n == Len(pre.variables)
        IN  /\ keys # n =>
                  /\ err = IF n = 0 /\ ~pre.built
                           THEN "ValueError: never built"
                           ELSE "ValueError: variable count mismatch"
                  /\ layer = pre
            /\ (keys = n /\ pre.built) =>
                  /\ layer._embeddings.value = store["0"]
                  /\ IsDense(pre) => err = "none"
                  /\ IsInt8(pre) =>
                        /\ err = "none"
                        /\ layer.embeddings_scale.value = store["1"]
                  /\ layer.variables = pre.variables
            /\ (keys = n /\ ~pre.built) =>
                  /\ err = "none"
                  /\ layer._embeddings = Absent
                  /\ layer.variables = <<>>

C12_Witness ==
    /\ op.name = "load_own_variables" /\ ~pre.lora_enabled
    /\ IsInt8(pre) /\ Len(pre.variables) = 2
    /\ DOMAIN store = {"0"}
    /\ err = "ValueError: variable count mismatch"
    /\ layer = pre

\* C13: after a successful load_own_variables on a LoRA-enabled layer, A and
\* B are zero-filled tensors of shapes (V, rank) and (rank, D), LoRA stays
\* enabled with its rank, and the effective table (and every forward pass) is
\* that of the table loaded from key "0", divided by the scale loaded from
\* key "1" in int8 mode, whatever A and B held before the load.
C13_LoadZeroesLora ==
    (op.name = "load_own_variables" /\ err = "none" /\ pre.lora_enabled) =>
        /\ layer.lora_enabled
        /\ layer.lora_rank = pre.lora_rank
        /\ layer.lora_embeddings_a.value =
              zeros(layer.input_dim, layer.lora_rank)
        /\ layer.lora_embeddings_b.value =
              zeros(layer.lora_rank, layer.output_dim)
        /\ layer._embeddings.value = store["0"]
        /\ IsDense(layer) =>
              /\ embeddings(layer) = store["0"]
              /\ \A inputs \in IndexTensors(layer.input_dim) :
                    forward(layer, inputs) = Returned(take(store["0"], inputs))
        /\ IsInt8(layer) =>
              /\ layer.embeddings_scale.value = store["1"]
              /\ \A inputs \in IndexTensors(layer.input_dim) :
                    forward(layer, inputs) =
                        Returned(divide(take(store["0"], inputs), store["1"]))

\* a load into an int8 layer whose A.B was not zero before the load
C13_Witness ==
    /\ op.name = "load_own_variables" /\ err = "none"
    /\ pre.lora_enabled /\ pre.lora_rank > 0 /\ IsInt8(layer)
    /\ \E i \in 1..pre.input_dim, j \in 1..pre.output_dim :
          LoraDelta(pre, i, j) # R(0)
    /\ layer.lora_embeddings_a.value # pre.lora_embeddings_a.value
    /\ layer.lora_embeddings_b.value # pre.lora_embeddings_b.value

C15_SubclassQuantize ==
    /\ (op.name = "quantize" /\ pre.is_subclass) =>
          /\ err = "NotImplementedError: subclass"
          /\ layer = pre
    /\ layer.is_subclass =>
          \A mode \in Modes :
              quantize(layer, mode) = Raise(layer, "NotImplementedError: subclass")

C15_Witness ==
    /\ op.name = "quantize" /\ op.mode = "int8"
    /\ pre.is_subclass /\ IsDense(pre) /\ pre.tracker_locked
    /\ err = "NotImplementedError: subclass"
    /\ layer = pre

\* x is a matrix of the given shape
HasShape(x, rows, cols) ==
    /\ DOMAIN x = 1..rows
    /\ \A i \in 1..rows : DOMAIN x[i] = 1..cols

\* the number of registered variables of the given name
Registered(l, name) ==
    Cardinality({k \in 1..Len(l.variables) : l.variables[k] = name})

\* C16: a successful first build() marks the layer built and allocates
\* exactly one table representation: outside quantized mode a dense float
\* table of shape (V, D), allocated trainable (and frozen again only if
\* build enables LoRA), with no scale; in int8 mode a non-trainable int8
\* table of shape (V, D) and a non-trainable scale of length D, and no dense
\* table.  If a LoRA rank was requested at construction, LoRA is enabled
\* with that rank when build returns, and otherwise it is not.
C16_FirstBuild ==
    (op.name = "build" /\ ~pre.built /\ err = "none") =>
        /\ layer.built
        /\ HasShape(layer._embeddings.value, pre.input_dim, pre.output_dim)
        /\ Registered(layer, "embeddings") = 1
        /\ IF ~IsQuantizedPolicy(pre.dtype_policy)
           THEN /\ layer._embeddings.dtype = "float32"
                /\ layer._embeddings.trainable = ~layer.lora_enabled
                /\ layer.embeddings_scale = Absent
                /\ Registered(layer, "embeddings_scale") = 0
           ELSE /\ quantization_mode(pre.dtype_policy) = "int8"
                /\ layer._embeddings.dtype = "int8"
                /\ ~layer._embeddings.trainable
                /\ layer.embeddings_scale.dtype = "float32"
                /\ ~layer.embeddings_scale.trainable
                /\ DOMAIN layer.embeddings_scale.value = 1..pre.output_dim
                /\ Registered(layer, "embeddings_scale") = 1
        /\ layer.dtype_policy = pre.dtype_policy
        /\ IF pre.lora_rank # None
           THEN /\ layer.lora_enabled
                /\ layer.lora_rank = pre.lora_rank
                /\ HasShape(layer.lora_embeddings_a.value,
                            pre.input_dim, pre.lora_rank)
                /\ HasShape(layer.lora_embeddings_b.value,
                            pre.lora_rank, pre.output_dim)
           ELSE /\ ~layer.lora_enabled
                /\ layer.lora_embeddings_a = Absent
                /\ layer.lora_embeddings_b = Absent

\* a first build in int8 mode with a LoRA rank requested at construction
C16_Witness ==
    /\ op.name = "build" /\ ~pre.built /\ err = "none"
    /\ pre.dtype_policy = "int8_from_float32" /\ pre.lora_rank = MaxRank
    /\ layer.built /\ layer.lora_enabled
    /\ layer._embeddings.dtype = "int8"

\* C17 as stated: in every reachable state the LoRA factors A and B exist if
\* and only if LoRA is enabled, and whenever LoRA is enabled the layer is
\* built, the recorded rank is a positive integer, A has shape (V, rank) and
\* B has shape (rank, D); a call of enable_lora that succeeds was given a
\* positive rank.
C17_LoraInvariant ==
    /\ (layer.lora_embeddings_a # Absent) <=> layer.lora_enabled
    /\ (layer.lora_embeddings_b # Absent) <=> layer.lora_enabled
    /\ layer.lora_enabled =>
          /\ layer.built
          /\ layer.lora_rank > 0
          /\ HasShape(layer.lora_embeddings_a.value,
                      layer.input_dim, layer.lora_rank)
          /\ HasShape(layer.lora_embeddings_b.value,
                      layer.lora_rank, layer.output_dim)
    /\ (op.name = "enable_lora" /\ err = "none") => op.rank > 0

\* C18 as stated: in every state of a built layer the table has shape
\* (V, D), the mode is int8 if and only if the registered table is the
\* non-trainable int8 table with a registered scale vector of length D, and
\* the mode is none if and only if the table is the dense float table with
\* no scale registered.
C18_ModeAgreesWithFields ==
    layer.built =>
        /\ HasShape(layer._embeddings.value, layer.input_dim, layer.output_dim)
        /\ Registered(layer, "embeddings") = 1
        /\ quantization_mode(layer.dtype_policy) = "int8" <=>
              /\ layer._embeddings.dtype = "int8"
              /\ ~layer._embeddings.trainable
              /\ layer.embeddings_scale # Absent
              /\ Registered(layer, "embeddings_scale") = 1
              /\ DOMAIN layer.embeddings_scale.value = 1..layer.output_dim
        /\ quantization_mode(layer.dtype_policy) = "none" <=>
              /\ layer._embeddings.dtype = "float32"
              /\ layer.embeddings_scale = Absent
              /\ Registered(layer, "embeddings_scale") = 0

\* C19 as stated, for enable_lora and for quantize("int8"): starting from a
\* built layer whose tracker is locked, the tracker is locked again after
\* the call, whether it returns or raises; no other operation unlocks it.
C19_TrackerRelocked ==
    (pre.built /\ pre.tracker_locked) =>
        /\ (op.name = "enable_lora" \/ (op.name = "quantize" /\ op.mode = "int8"))
              => layer.tracker_locked
        /\ op.name \notin {"enable_lora", "quantize"} => layer.tracker_locked

\* quantize("int8") then enable_lora(r), and enable_lora(r) then
\* quantize("int8"), on layer l with the same draw a of A's initializer
QuantizeThenLora(l, r, a) ==
    LET q == quantize(l, "int8")
        e == enable_lora(q.layer, r, a, "zeros")
    IN  [layer |-> e.layer, errs |-> <<q.err, e.err>>]

LoraThenQuantize(l, r, a) ==
    LET e == enable_lora(l, r, a, "zeros")
        q == quantize(e.layer, "int8")
    IN  [layer |-> q.layer, errs |-> <<e.err, q.err>>]

\* the set of registered variable names
RegisteredNames(l) == {l.variables[k] : k \in 1..Len(l.variables)}

\* both orders succeed on l and leave the same fields and the same set of
\* registered variables: the int8 table and scale quantized from the base
\* table of l, LoRA enabled with rank r, A of shape (V, r), B of shape (r, D)
Commutes(l, r, a) ==
    LET qe == QuantizeThenLora(l, r, a)
        eq == LoraThenQuantize(l, r, a)
        q == abs_max_quantize(l._embeddings.value, l.input_dim, l.output_dim)
    IN  /\ qe.errs = <<"none", "none">>
        /\ eq.errs = <<"none", "none">>
        /\ [qe.layer EXCEPT !.variables = <<>>] =
              [eq.layer EXCEPT !.variables = <<>>]
        /\ RegisteredNames(qe.layer) = RegisteredNames(eq.layer)
        /\ Len(qe.layer.variables) = Len(eq.layer.variables)
        /\ IsInt8(eq.layer)
        /\ eq.layer._embeddings.value = q.value
        /\ eq.layer.embeddings_scale.value = squeeze(q.scale)
        /\ eq.layer.lora_enabled /\ eq.layer.lora_rank = r
        /\ HasShape(eq.layer.lora_embeddings_a.value, l.input_dim, r)
        /\ HasShape(eq.layer.lora_embeddings_b.value, r, l.output_dim)

\* C20 as stated: on every built dense layer with no constraint (and LoRA
\* not yet enabled) the two orders both succeed and reach the same state.
C20_Original ==
    (IsDense(layer) /\ ~layer.embeddings_constraint /\ ~layer.lora_enabled) =>
        \A r \in 1..MaxRank, a \in RandomDraws : Commutes(layer, r, a)

\* C20 (amended): on a built dense instance of the exact Embedding type with
\* no constraint and LoRA not yet enabled, the two orders both succeed and
\* reach the same state; whenever quantize("int8") succeeds on a layer with
\* LoRA enabled, the int8 table and scale are those of the base table alone
\* and A and B are kept, and enable_lora on an int8 layer keeps the table
\* and the scale.
C20_QuantizeLoraCommute ==
    /\ (IsDense(layer) /\ ~layer.embeddings_constraint /\ ~layer.lora_enabled
          /\ ~layer.is_subclass) =>
          \A r \in 1..MaxRank, a \in RandomDraws : Commutes(layer, r, a)
    /\ (op.name = "quantize" /\ err = "none" /\ pre.lora_enabled) =>
          LET q == abs_max_quantize(pre._embeddings.value,
                                    pre.input_dim, pre.output_dim)
          IN  /\ layer._embeddings.value = q.value
              /\ layer.embeddings_scale.value = squeeze(q.scale)
              /\ layer.lora_embeddings_a = pre.lora_embeddings_a
              /\ layer.lora_embeddings_b = pre.lora_embeddings_b
              /\ layer.lora_enabled /\ layer.lora_rank = pre.lora_rank
    /\ (op.name = "enable_lora" /\ err = "none" /\ IsInt8(pre)) =>
          /\ layer._embeddings = pre._embeddings
          /\ layer.embeddings_scale = pre.embeddings_scale

\* quantize("int8") has succeeded on a dense layer whose A.B was not zero
C20_Witness ==
    /\ op.name = "quantize" /\ op.mode = "int8" /\ err = "none"
    /\ IsDense(pre) /\ pre.lora_enabled /\ pre.lora_rank > 0
    /\ \E i \in 1..pre.input_dim, j \in 1..pre.output_dim :
          LoraDelta(pre, i, j) # R(0)
    /\ IsInt8(layer) /\ layer.lora_enabled
====
